---- MODULE Spec2Model ----
(***************************************************************************)
(* LinkExtractorService (apps/server/src/services/link-extractor.service.ts)*)
(* as a state machine.  One request to the service runs at a time; every    *)
(* `await` of an HTTP call is one step whose response the network chooses.  *)
(* Strings are TLA+ strings and the string functions of the code            *)
(* (toLowerCase, endsWith, startsWith, trim, split, the regular             *)
(* expressions, url.resolve) are computed character by character.           *)
(***************************************************************************)
EXTENDS Integers, Sequences, FiniteSets, TLC

VARIABLES
    op,                     \* the public operation requested (index.ts routes)
    arg,                    \* its url argument (websiteUrl or sitemapUrl)
    web,                    \* what the site serves at each sitemap URL
    pc,                     \* position of the running operation
    hasSitemapInRobotsTxt,  \* getAllSitemapPaths locals
    robotsSitemaps,
    standardSitemap,
    htmlSitemap,
    commonSitemaps,
    pathIndex,              \* checkCommonSitemapPaths: position in commonPaths
    sitemapPaths,           \* value getAllSitemapPaths returned
    sitemapIndex,           \* extractAllLinks locals
    allLinks,
    stack,                  \* frames of extractLinksFromSitemap, innermost first
    result,                 \* value the operation returned to its caller
    requests,               \* history: HTTP requests issued, with the response
    returns                 \* history: completed extractLinksFromSitemap calls

vars == <<op, arg, web, pc, hasSitemapInRobotsTxt, robotsSitemaps,
          standardSitemap, htmlSitemap, commonSitemaps, pathIndex, sitemapPaths,
          sitemapIndex, allLinks, stack, result, requests, returns>>

inputVars == <<op, arg, web>>

locatorVars == <<hasSitemapInRobotsTxt, robotsSitemaps, standardSitemap,
                 htmlSitemap, commonSitemaps, pathIndex>>

extractorVars == <<stack, returns>>

-----------------------------------------------------------------------------
(* Bounds of the model *)

\* extractLinksFromSitemap stops being scheduled after this many GETs
MaxFetches == 8
\* longest list handed to the aggregation step on its own
MaxLinks == 3

-----------------------------------------------------------------------------
(* JavaScript strings *)

CharAt(s, i) == SubSeq(s, i, i)

\* String.prototype.indexOf(sub, from), 1-based, 0 when absent
IndexOfFrom(s, sub, from) ==
    LET cand == { i \in from..(Len(s) - Len(sub) + 1) :
                    SubSeq(s, i, i + Len(sub) - 1) = sub }
    IN  IF cand = {} THEN 0 ELSE CHOOSE i \in cand : \A j \in cand : i <= j

IndexOf(s, sub) == IndexOfFrom(s, sub, 1)

Includes(s, sub) == IndexOf(s, sub) > 0

StartsWith(s, pre) == Len(s) >= Len(pre) /\ SubSeq(s, 1, Len(pre)) = pre

EndsWith(s, suf) ==
    Len(s) >= Len(suf) /\ SubSeq(s, Len(s) - Len(suf) + 1, Len(s)) = suf

UpperCaseLetters == "ABCDEFGHIJKLMNOPQRSTUVWXYZ"

LowerCaseLetters == "abcdefghijklmnopqrstuvwxyz"

LowerChar(c) ==
    LET i == IndexOf(UpperCaseLetters, c)
    IN  IF i = 0 THEN c ELSE CharAt(LowerCaseLetters, i)

RECURSIVE ToLowerCase(_)
ToLowerCase(s) ==
    IF s = "" THEN "" ELSE LowerChar(Head(s)) \o ToLowerCase(Tail(s))

IsSpace(c) == c \in {" ", "\t", "\n", "\r"}

RECURSIVE TrimStart(_)
TrimStart(s) == IF s # "" /\ IsSpace(Head(s)) THEN TrimStart(Tail(s)) ELSE s

RECURSIVE TrimEnd(_)
TrimEnd(s) ==
    IF s # "" /\ IsSpace(CharAt(s, Len(s)))
    THEN TrimEnd(SubSeq(s, 1, Len(s) - 1))
    ELSE s

Trim(s) == TrimEnd(TrimStart(s))

RECURSIVE Split(_, _)
Split(s, sep) ==
    LET i == IndexOf(s, sep)
    IN  IF i = 0 THEN <<s>>
        ELSE <<SubSeq(s, 1, i - 1)>>
                 \o Split(SubSeq(s, i + Len(sep), Len(s)), sep)

\* s.replace(/sub/g, "")
RECURSIVE RemoveAll(_, _)
RemoveAll(s, sub) ==
    LET i == IndexOf(s, sub)
    IN  IF i = 0 THEN s
        ELSE SubSeq(s, 1, i - 1)
                 \o RemoveAll(SubSeq(s, i + Len(sub), Len(s)), sub)

-----------------------------------------------------------------------------
(* node:url resolve(from, to), for the shapes of `to` the service meets:    *)
(* a URL with a scheme, an absolute path, a fragment, a relative path.      *)

HasScheme(to) ==
    LET c == IndexOf(to, ":")
        s == IndexOf(to, "/")
    IN  c > 1 /\ (s = 0 \/ c < s)

\* scheme://host of an absolute URL
Origin(from) ==
    LET p == IndexOf(from, "://")
        q == IndexOfFrom(from, "/", p + 3)
    IN  IF q = 0 THEN from ELSE SubSeq(from, 1, q - 1)

RECURSIVE LastIndexOf(_, _)
LastIndexOf(s, c) ==
    IF s = "" THEN 0
    ELSE IF CharAt(s, Len(s)) = c THEN Len(s)
    ELSE LastIndexOf(SubSeq(s, 1, Len(s) - 1), c)

\* the URL of the directory that holds `from`, with its trailing slash
Directory(from) ==
    LET o == Origin(from)
    IN  IF Len(from) = Len(o) THEN o \o "/"
        ELSE SubSeq(from, 1, LastIndexOf(from, "/"))

Resolve(from, to) ==
    IF to = "" THEN from
    ELSE IF HasScheme(to) THEN to
    ELSE IF StartsWith(to, "/") THEN Origin(from) \o to
    ELSE IF StartsWith(to, "#") THEN from \o to
    ELSE Directory(from) \o to

-----------------------------------------------------------------------------
(* Sequences *)

RECURSIVE Flatten(_)
Flatten(ss) == IF ss = <<>> THEN <<>> ELSE Head(ss) \o Flatten(Tail(ss))

Range(s) == { s[i] : i \in DOMAIN s }

-----------------------------------------------------------------------------
(* HTTP: axios resolves with the body, or rejects (network error, non-2xx) *)

NetworkError == [ok |-> FALSE]

Response(data) == [ok |-> TRUE, data |-> data]

Null == [null |-> TRUE]

ROBOTS_TXT == "/robots.txt"

SitemapPath(u) == [url |-> u]


-----------------------------------------------------------------------------
(* The network: what the requests of one run may be answered with *)

WebsiteUrls == {"https://a.com"}

RobotsPlain == "User-agent: *\nDisallow: /admin"

RobotsMention == "User-agent: *\n# no sitemap yet"

RobotsCustom == "User-agent: *\nSitemap: https://a.com/custom.xml"

RobotsTwo ==
    "sitemap:  https://a.com/sitemap.xml \nSitemap: https://a.com/NEWS.XML"

RobotsFeed == "Sitemap: https://a.com/feed"

RobotsBodies ==
    {RobotsPlain, RobotsMention, RobotsCustom, RobotsTwo, RobotsFeed}

\* an HTML page, as cheerio sees it: the link[rel="sitemap"] elements and the
\* a elements in document order, each with the attributes it has
PagePlain ==
    [links   |-> <<>>,
     anchors |-> << [href |-> "/about", text |-> "About"],
                    [href |-> "#top", text |-> "Top"],
                    [href |-> "/about", text |-> " About us "],
                    [href |-> "javascript:void(0)", text |-> "Run"],
                    [text |-> "No target"],
                    [href |-> "mailto:me@a.com", text |-> " "] >>]

PageLinked ==
    [links   |-> << [href |-> "sitemap-main.xml"] >>,
     anchors |-> << [href |-> "https://b.org/x", text |-> "B"] >>]

PageFeed ==
    [links   |-> << [href |-> "/feed"] >>,
     anchors |-> <<>>]

Pages == {PagePlain, PageLinked, PageFeed}

\* common paths a HEAD may find; at every other path it fails
Hosted == {"/sitemap.xml", "/sitemap/", "/wp-sitemap.xml"}

GetResponses(bodies) == {NetworkError} \cup { Response(b) : b \in bodies }

HeadResponses == {NetworkError, Response("")}

Request(fn, method, u, depth, response) ==
    [fn |-> fn, method |-> method, url |-> u, depth |-> depth,
     response |-> response]

-----------------------------------------------------------------------------
(* The sitemap locator *)

\* extractSitemapUrl: the catch turns a failed HEAD into null
StandardSitemapUrl(websiteUrl) == websiteUrl \o "/sitemap.xml"

\* a faulty variant: extractSitemapUrl without its try/catch
ExtractSitemapUrlNoCatch(websiteUrl, response) ==
    IF response.ok
    THEN [raised |-> FALSE, value |-> SitemapPath(StandardSitemapUrl(websiteUrl))]
    ELSE [raised |-> TRUE, value |-> Null]

ExtractSitemapUrl(websiteUrl, response) ==
    IF response.ok
    THEN [raised |-> FALSE, value |-> SitemapPath(StandardSitemapUrl(websiteUrl))]
    ELSE [raised |-> FALSE, value |-> Null]

\* line.match(/Sitemap: (.*)/i): the text after the first "sitemap: "
SitemapDirective(line) ==
    LET i == IndexOf(ToLowerCase(line), "sitemap: ")
    IN  IF i = 0 THEN Null
        ELSE [null |-> FALSE, group |-> SubSeq(line, i + 9, Len(line))]

RECURSIVE DirectivesOf(_)
DirectivesOf(lines) ==
    IF lines = <<>> THEN <<>>
    ELSE LET match == SitemapDirective(Head(lines))
         IN  (IF match.null THEN <<>>
              ELSE << SitemapPath(Trim(match.group)) >>)
                 \o DirectivesOf(Tail(lines))

\* extractSitemapsFromRobotsTxt: the catch turns a failed GET into []
ExtractSitemapsFromRobotsTxt(response) ==
    IF response.ok
    THEN [raised |-> FALSE, value |-> DirectivesOf(Split(response.data, "\n"))]
    ELSE [raised |-> FALSE, value |-> <<>>]

HasSitemapMention(data) == Includes(ToLowerCase(data), "sitemap")

HasSitemapDirective(data) == Includes(ToLowerCase(data), "sitemap: ")

\* checkRobotsTxtForSitemapPath: the catch turns a failed GET into false
CheckRobotsTxtForSitemapPath(response) ==
    IF response.ok
    THEN [raised |-> FALSE,
          value  |-> HasSitemapMention(response.data)
                        \/ HasSitemapDirective(response.data)]
    ELSE [raised |-> FALSE, value |-> FALSE]

\* $('link[rel="sitemap"]').attr("href"): the first element's attribute
SitemapLink(page) ==
    IF page.links # <<>> /\ "href" \in DOMAIN page.links[1]
    THEN page.links[1].href
    ELSE ""

\* findSitemapInHtmlHeader: the catch turns a failed GET into null
FindSitemapInHtmlHeader(websiteUrl, response) ==
    IF response.ok
    THEN LET sitemapLink == SitemapLink(response.data)
         IN  [raised |-> FALSE,
              value  |-> IF sitemapLink # ""
                         THEN SitemapPath(Resolve(websiteUrl, sitemapLink))
                         ELSE Null]
    ELSE [raised |-> FALSE, value |-> Null]

commonPaths ==
    << "/sitemap.xml", "/sitemap_index.xml", "/sitemap-index.xml",
       "/sitemapindex.xml", "/sitemap/", "/sitemaps/", "/sitemap/sitemap.xml",
       "/wp-sitemap.xml", "/news-sitemap.xml", "/image-sitemap.xml",
       "/video-sitemap.xml", "/post-sitemap.xml" >>

\* one turn of the loop of checkCommonSitemapPaths: a failed HEAD is skipped
CommonPathProbe(foundSitemaps, sitemapUrl, response) ==
    IF response.ok
    THEN [raised |-> FALSE, value |-> Append(foundSitemaps, SitemapPath(sitemapUrl))]
    ELSE [raised |-> FALSE, value |-> foundSitemaps]

\* a faulty variant: the robots.txt entries count only when they end in .xml
CheckCommonPathsWithoutXmlEntries(hasSitemap, robots) ==
    ~hasSitemap \/ \A i \in DOMAIN robots : ~EndsWith(ToLowerCase(robots[i].url), ".xml")

\* a faulty variant: the negation of hasSitemapInRobotsTxt lost
CheckCommonPathsWhenMentioned(hasSitemap, robots) == hasSitemap \/ Len(robots) = 0

\* getAllSitemapPaths: "if (!hasSitemapInRobotsTxt || robotsSitemaps.length === 0)"
ShouldCheckCommonPaths(hasSitemap, robots) == ~hasSitemap \/ Len(robots) = 0

\* a faulty variant: the filter without toLowerCase()
IsXmlUrlCaseSensitive(sitemapUrl) == EndsWith(sitemapUrl, ".xml")

IsXmlUrl(sitemapUrl) == EndsWith(ToLowerCase(sitemapUrl), ".xml")

\* new Set(iterable) then Array.from: insertion order, one of each
RECURSIVE SetFrom(_, _)
SetFrom(set, items) ==
    IF items = <<>> THEN set
    ELSE SetFrom(IF Head(items) \in Range(set) THEN set
                 ELSE Append(set, Head(items)),
                 Tail(items))

Present(maybe) == IF maybe = Null THEN <<>> ELSE <<maybe>>

\* the tail of getAllSitemapPaths: combine, filter, deduplicate
CombineSitemapPaths(robots, standard, html, common) ==
    LET allSitemapPaths == robots \o Present(standard) \o Present(html) \o common
        urls == [i \in DOMAIN allSitemapPaths |-> allSitemapPaths[i].url]
        uniqueUrls == SetFrom(<<>>, SelectSeq(urls, IsXmlUrl))
    IN  [i \in DOMAIN uniqueUrls |-> SitemapPath(uniqueUrls[i])]


-----------------------------------------------------------------------------
(* Sitemap documents.  A body is its text and what xml2js makes of the     *)
(* text: the object parseStringPromise resolves with (child elements by    *)
(* name, each an array; an element without children is empty), or a parse  *)
(* error.                                                                  *)

ParseError == [parseError |-> TRUE]

Element(name, text) == "<" \o name \o ">" \o text \o "</" \o name \o ">"

ChildText(obj, name) ==
    IF name \in DOMAIN obj THEN Element(name, obj[name][1]) ELSE ""

RECURSIVE EntriesText(_, _)
EntriesText(name, entries) ==
    IF entries = <<>> THEN ""
    ELSE Element(name, ChildText(Head(entries), "loc")
                          \o ChildText(Head(entries), "lastmod")
                          \o ChildText(Head(entries), "changefreq")
                          \o ChildText(Head(entries), "priority"))
             \o EntriesText(name, Tail(entries))

SitemapIndexBody(sitemaps) ==
    [text |-> Element("sitemapindex", EntriesText("sitemap", sitemaps)),
     xml  |-> [sitemapindex |-> [sitemap |-> sitemaps]]]

UrlSetBody(urls) ==
    [text |-> Element("urlset", EntriesText("url", urls)),
     xml  |-> [urlset |-> [url |-> urls]]]

NewsBody ==
    [text |-> Element("news:news", Element("loc", "https://a.com/n1")),
     xml  |-> ("news:news" :> [loc |-> <<"https://a.com/n1">>])]

MalformedBody ==
    [text |-> "<urlset><url><loc> https://a.com/2 </loc></url>\n<url><loc>https://a.com/9</loc>",
     xml  |-> ParseError]

\* a body axios has already decoded into an object: not a string
JsonBody == [xml |-> ParseError]

Loc(u) == [loc |-> <<u>>]

SitemapXml == "https://a.com/sitemap.xml"
CustomXml == "https://a.com/custom.xml"
NewsXml == "https://a.com/NEWS.XML"
MainXml == "https://a.com/sitemap-main.xml"
WpXml == "https://a.com/wp-sitemap.xml"
PostXml == "https://a.com/post.xml"
PageXml == "https://a.com/page.xml"
SubXml == "https://a.com/sub.xml"
ApiXml == "https://a.com/api.xml"

PostUrls ==
    << [loc |-> <<"https://a.com/1">>, lastmod |-> <<"2024-01-01">>],
       Loc("https://a.com/2") >>

PageUrls ==
    << [loc |-> <<"https://a.com/2">>, priority |-> <<"0.5">>],
       [loc |-> <<"https://a.com/3">>, changefreq |-> <<"daily">>] >>

\* the second url element has no loc
WpUrls ==
    << [loc |-> <<"https://a.com/4">>, lastmod |-> <<"2024-02-02">>],
       [lastmod |-> <<"2024-03-03">>],
       Loc("https://a.com/5") >>

Leaves ==
    (PostXml :> UrlSetBody(PostUrls)) @@ (PageXml :> UrlSetBody(PageUrls))

TreeSite ==
    (SitemapXml :> SitemapIndexBody(<<Loc(PostXml), Loc(PageXml)>>))
        @@ (CustomXml :> UrlSetBody(<<[loc |-> <<"https://a.com/1">>,
                                       changefreq |-> <<"weekly">>]>>))
        @@ (NewsXml :> NewsBody)
        @@ (MainXml :> MalformedBody)
        @@ (WpXml :> UrlSetBody(WpUrls))
        @@ Leaves

\* post.xml is referenced twice, once through a nested index
DiamondSite ==
    (SitemapXml :> SitemapIndexBody(<<Loc(PostXml), Loc(SubXml)>>))
        @@ (SubXml :> SitemapIndexBody(<<Loc(PostXml), Loc(PageXml)>>))
        @@ Leaves

\* the index lists itself
CycleSite ==
    (SitemapXml :> SitemapIndexBody(<<Loc(PostXml), Loc(SitemapXml)>>))
        @@ Leaves

\* an index with a sitemap element that has no loc
BrokenIndexSite ==
    (SitemapXml :> SitemapIndexBody(<<Loc(PostXml), <<>>, Loc(PageXml)>>))
        @@ Leaves

\* an index over bodies of every kind
MixedSite ==
    (SitemapXml :> SitemapIndexBody(<<Loc(PostXml), Loc(MainXml), Loc(WpXml),
                                      Loc(ApiXml), Loc(PageXml)>>))
        @@ (MainXml :> MalformedBody)
        @@ (WpXml :> UrlSetBody(WpUrls))
        @@ (ApiXml :> JsonBody)
        @@ Leaves

Sites == {TreeSite, DiamondSite, CycleSite, BrokenIndexSite, MixedSite}

-----------------------------------------------------------------------------
(* The sitemap extractor *)

Returned(value) == [kind |-> "return", value |-> value]

Raised == [kind |-> "raise"]

Recurse(urls) == [kind |-> "recurse", nestedSitemapUrls |-> urls]

\* a faulty variant: the optional fields are never copied
NeverCopied(obj, from, to) == <<>>

Optional(obj, from, to) ==
    IF from \in DOMAIN obj THEN (to :> obj[from][1]) ELSE <<>>

\* a faulty variant: only the first nested sitemap is taken
FirstNestedSitemapUrl(sitemaps) ==
    IF "loc" \notin DOMAIN sitemaps[1]
    THEN [raised |-> TRUE, value |-> <<>>]
    ELSE [raised |-> FALSE, value |-> <<sitemaps[1].loc[1]>>]

\* result.sitemapindex.sitemap.map(sitemap => sitemap.loc[0]): a TypeError
\* when an element has no loc
NestedSitemapUrls(sitemaps) ==
    IF \E i \in DOMAIN sitemaps : "loc" \notin DOMAIN sitemaps[i]
    THEN [raised |-> TRUE, value |-> <<>>]
    ELSE [raised |-> FALSE, value |-> [i \in DOMAIN sitemaps |-> sitemaps[i].loc[1]]]

\* the loop over result.urlset.url: pushes onto links until an element
\* without loc raises a TypeError
RECURSIVE UrlSetLinks(_, _, _)
UrlSetLinks(links, urls, sitemapUrl) ==
    IF urls = <<>> THEN [raised |-> FALSE, value |-> links]
    ELSE LET urlObj == Head(urls)
         IN  IF "loc" \notin DOMAIN urlObj
             THEN [raised |-> TRUE, value |-> links]
             ELSE UrlSetLinks(
                      Append(links,
                             [url |-> urlObj.loc[1], source |-> sitemapUrl]
                                 @@ Optional(urlObj, "lastmod", "lastmod")
                                 @@ Optional(urlObj, "priority", "priority")
                                 @@ Optional(urlObj, "changefreq", "changefreq")),
                      Tail(urls), sitemapUrl)

\* text.match(/<loc>(.*?)<\/loc>/g): the matches, left to right; "." stops
\* at a line break
RECURSIVE LocMatches(_)
LocMatches(text) ==
    LET i == IndexOf(text, "<loc>")
        j == IndexOfFrom(text, "</loc>", i + 5)
    IN  IF i = 0 \/ j = 0 THEN <<>>
        ELSE IF Includes(SubSeq(text, i + 5, j - 1), "\n")
        THEN LocMatches(SubSeq(text, i + 1, Len(text)))
        ELSE <<SubSeq(text, i, j + 5)>>
                 \o LocMatches(SubSeq(text, j + 6, Len(text)))

\* the catch (xmlError) block: the regex fallback, onto the links pushed so
\* far; response.data.match raises when the body is not a string
RegexFallback(links, data, sitemapUrl) ==
    IF "text" \notin DOMAIN data THEN Raised
    ELSE LET urlMatches == LocMatches(data.text)
         IN  Returned(links \o
                 [i \in DOMAIN urlMatches |->
                     [url    |-> Trim(RemoveAll(RemoveAll(urlMatches[i], "<loc>"),
                                                "</loc>")),
                      source |-> sitemapUrl]])

\* a faulty variant: an index does not recurse into its own URL
ParseSitemapSkippingSelf(data, sitemapUrl) ==
    LET parsed == data.xml
    IN  IF parsed = ParseError THEN Raised
        ELSE IF "sitemapindex" \in DOMAIN parsed
                   /\ "sitemap" \in DOMAIN parsed.sitemapindex
        THEN LET nested == NestedSitemapUrls(parsed.sitemapindex.sitemap)
                 others == SelectSeq(nested.value, LAMBDA u : u # sitemapUrl)
             IN  IF nested.raised THEN Raised
                 ELSE IF others = <<>> THEN Returned(<<>>)
                 ELSE Recurse(others)
        ELSE IF "urlset" \in DOMAIN parsed /\ "url" \in DOMAIN parsed.urlset
        THEN LET links == UrlSetLinks(<<>>, parsed.urlset.url, sitemapUrl)
             IN  IF links.raised
                 THEN [kind |-> "raise", links |-> links.value]
                 ELSE Returned(links.value)
        ELSE Returned(<<>>)

\* the inner try: parse, then the branch the parsed object selects
ParseSitemap(data, sitemapUrl) ==
    LET parsed == data.xml
    IN  IF parsed = ParseError THEN Raised
        ELSE IF "sitemapindex" \in DOMAIN parsed
                   /\ "sitemap" \in DOMAIN parsed.sitemapindex
        THEN LET nested == NestedSitemapUrls(parsed.sitemapindex.sitemap)
             IN  IF nested.raised THEN Raised ELSE Recurse(nested.value)
        ELSE IF "urlset" \in DOMAIN parsed /\ "url" \in DOMAIN parsed.urlset
        THEN LET links == UrlSetLinks(<<>>, parsed.urlset.url, sitemapUrl)
             IN  IF links.raised
                 THEN [kind |-> "raise", links |-> links.value]
                 ELSE Returned(links.value)
        ELSE Returned(<<>>)

\* the links array at the time the inner try raised
LinksAtRaise(outcome) ==
    IF "links" \in DOMAIN outcome THEN outcome.links ELSE <<>>

\* the outer catch: "return []"
OuterCatch(outcome) == IF outcome.kind = "raise" THEN Returned(<<>>) ELSE outcome

\* a faulty variant: no outer try/catch: the failed GET raises out of the call
NetworkErrorEscapes == Raised

\* a failed GET raises inside the outer try
OnNetworkError == OuterCatch(Raised)

\* extractLinksFromSitemap from the response of its GET to its first
\* recursive call or its return
OnSitemapResponse(sitemapUrl, response) ==
    IF ~response.ok THEN OnNetworkError
    ELSE LET outcome == ParseSitemap(response.data, sitemapUrl)
         IN  IF outcome.kind = "raise"
             THEN OuterCatch(RegexFallback(LinksAtRaise(outcome), response.data,
                                           sitemapUrl))
             ELSE outcome

Frame(sitemapUrl) ==
    [sitemapUrl |-> sitemapUrl, response |-> NetworkError,
     nestedSitemapUrls |-> <<>>, i |-> 0, links |-> <<>>]

Completed(frame, depth, outcome) ==
    [sitemapUrl |-> frame.sitemapUrl, depth |-> depth,
     response |-> frame.response, outcome |-> outcome]

\* A call has ended with `outcome`; `callers` are the frames awaiting it,
\* innermost first.  The caller pushes the links and starts its next nested
\* sitemap, or ends in turn; a raise lands in the caller's catch (xmlError).
RECURSIVE Unwind(_, _, _, _)
Unwind(callers, frame, outcome, log) ==
    LET done == Append(log, Completed(frame, Len(callers) + 1, outcome))
    IN  IF callers = <<>>
        THEN [stack |-> <<>>, outcome |-> outcome, returns |-> done]
        ELSE LET caller == Head(callers)
             IN  IF outcome.kind = "raise"
                 THEN Unwind(Tail(callers), caller,
                             OuterCatch(RegexFallback(caller.links,
                                                      caller.response.data,
                                                      caller.sitemapUrl)),
                             done)
                 ELSE LET links == caller.links \o outcome.value
                          i == caller.i + 1
                      IN  IF i <= Len(caller.nestedSitemapUrls)
                          THEN [stack   |-> <<Frame(caller.nestedSitemapUrls[i]),
                                              [caller EXCEPT !.links = links,
                                                             !.i = i]>>
                                                \o Tail(callers),
                                outcome |-> outcome,
                                returns |-> done]
                          ELSE Unwind(Tail(callers),
                                      [caller EXCEPT !.links = links, !.i = i],
                                      Returned(links), done)

-----------------------------------------------------------------------------
(* The page scraper *)

\* a faulty variant: only fragments are skipped
AnchorLinksKeepingScripts(anchor, pageUrl) ==
    IF "href" \in DOMAIN anchor /\ anchor.href # ""
    THEN IF StartsWith(anchor.href, "#")
         THEN <<>>
         ELSE << [url |-> Resolve(pageUrl, anchor.href), source |-> pageUrl]
                     @@ (IF Trim(anchor.text) # ""
                         THEN [text |-> Trim(anchor.text)]
                         ELSE <<>>) >>
    ELSE <<>>

\* the callback of $("a").each
AnchorLinks(anchor, pageUrl) ==
    IF "href" \in DOMAIN anchor /\ anchor.href # ""
    THEN IF StartsWith(anchor.href, "#") \/ StartsWith(anchor.href, "javascript:")
         THEN <<>>
         ELSE << [url |-> Resolve(pageUrl, anchor.href), source |-> pageUrl]
                     @@ (IF Trim(anchor.text) # ""
                         THEN [text |-> Trim(anchor.text)]
                         ELSE <<>>) >>
    ELSE <<>>

\* extractLinksFromPage: the catch turns a failed GET into []
ExtractLinksFromPage(pageUrl, response) ==
    IF response.ok
    THEN Flatten([i \in DOMAIN response.data.anchors |->
                     AnchorLinks(response.data.anchors[i], pageUrl)])
    ELSE <<>>

-----------------------------------------------------------------------------
(* The aggregation step of extractAllLinks *)

\* a Map: its entries in insertion order
MapHas(map, key) == \E i \in DOMAIN map : map[i].key = key

MapSet(map, key, value) ==
    IF MapHas(map, key)
    THEN [i \in DOMAIN map |->
              IF map[i].key = key THEN [key |-> key, value |-> value] ELSE map[i]]
    ELSE Append(map, [key |-> key, value |-> value])

MapValues(map) == [i \in DOMAIN map |-> map[i].value]

\* a faulty variant: the map keyed by url and source together
LinkKeyWithSource(link) == link.source \o " " \o link.url

\* the key of uniqueUrls
LinkKey(link) == link.url

\* a faulty variant: set without the has() test: the last writer wins
KeepLast(uniqueUrls, link) == MapSet(uniqueUrls, LinkKey(link), link)

\* "if (!uniqueUrls.has(link.url)) uniqueUrls.set(link.url, link)"
KeepFirst(uniqueUrls, link) ==
    IF ~MapHas(uniqueUrls, LinkKey(link))
    THEN MapSet(uniqueUrls, LinkKey(link), link)
    ELSE uniqueUrls

RECURSIVE UniqueUrls(_, _)
UniqueUrls(uniqueUrls, links) ==
    IF links = <<>> THEN uniqueUrls
    ELSE UniqueUrls(KeepFirst(uniqueUrls, Head(links)), Tail(links))

DeduplicateLinks(links) == MapValues(UniqueUrls(<<>>, links))

\* a faulty variant: ">= 0": the sitemap branch is always taken
AlwaysTakeSitemaps(paths) == Len(paths) >= 0

\* a faulty variant: "> 1": a single sitemap counts as none
MoreThanOneFound(paths) == Len(paths) > 1

\* "if (sitemapPaths.length > 0)"
SitemapsWereFound(paths) == Len(paths) > 0


-----------------------------------------------------------------------------
(* The operations *)

Operations == {"getAllSitemapPaths", "extractLinksFromSitemap", "extractAllLinks"}

Idle ==
    /\ hasSitemapInRobotsTxt = FALSE
    /\ robotsSitemaps = <<>>
    /\ standardSitemap = Null
    /\ htmlSitemap = Null
    /\ commonSitemaps = <<>>
    /\ pathIndex = 0
    /\ sitemapPaths = <<>>
    /\ sitemapIndex = 0
    /\ allLinks = <<>>
    /\ result = <<>>
    /\ requests = <<>>
    /\ returns = <<>>

Init ==
    /\ op \in Operations
    /\ \/ /\ op \in {"getAllSitemapPaths", "extractAllLinks"}
          /\ arg \in WebsiteUrls
          /\ web = TreeSite
          /\ pc = "checkRobotsTxtForSitemapPath"
          /\ stack = <<>>
       \/ /\ op = "extractLinksFromSitemap"
          /\ web \in Sites
          /\ arg \in DOMAIN web
          /\ pc = "extractLinksFromSitemap"
          /\ stack = <<Frame(arg)>>
    /\ Idle

Issue(fn, method, u, depth, response) ==
    requests' = Append(requests, Request(fn, method, u, depth, response))

\* an exception nothing catches ends the operation
Fail ==
    /\ pc' = "raised"
    /\ stack' = <<>>

\* getAllSitemapPaths, first await
CheckRobotsTxtStep ==
    /\ pc = "checkRobotsTxtForSitemapPath"
    /\ \E response \in GetResponses(RobotsBodies) :
           LET r == CheckRobotsTxtForSitemapPath(response)
           IN  /\ Issue("checkRobotsTxtForSitemapPath", "GET",
                        Resolve(arg, ROBOTS_TXT), 0, response)
               /\ IF r.raised
                  THEN Fail /\ UNCHANGED hasSitemapInRobotsTxt
                  ELSE /\ hasSitemapInRobotsTxt' = r.value
                       /\ pc' = "extractSitemapsFromRobotsTxt"
                       /\ UNCHANGED stack
    /\ UNCHANGED <<inputVars, robotsSitemaps, standardSitemap, htmlSitemap,
                   commonSitemaps, pathIndex, sitemapPaths, sitemapIndex,
                   allLinks, result, returns>>

ExtractRobotsTxtStep ==
    /\ pc = "extractSitemapsFromRobotsTxt"
    /\ \E response \in GetResponses(RobotsBodies) :
           LET r == ExtractSitemapsFromRobotsTxt(response)
           IN  /\ Issue("extractSitemapsFromRobotsTxt", "GET",
                        Resolve(arg, ROBOTS_TXT), 0, response)
               /\ IF r.raised
                  THEN Fail /\ UNCHANGED robotsSitemaps
                  ELSE /\ robotsSitemaps' = r.value
                       /\ pc' = "extractSitemapUrl"
                       /\ UNCHANGED stack
    /\ UNCHANGED <<inputVars, hasSitemapInRobotsTxt, standardSitemap,
                   htmlSitemap, commonSitemaps, pathIndex, sitemapPaths,
                   sitemapIndex, allLinks, result, returns>>

StandardPathStep ==
    /\ pc = "extractSitemapUrl"
    /\ \E response \in HeadResponses :
           LET r == ExtractSitemapUrl(arg, response)
           IN  /\ Issue("extractSitemapUrl", "HEAD", StandardSitemapUrl(arg), 0,
                        response)
               /\ IF r.raised
                  THEN Fail /\ UNCHANGED standardSitemap
                  ELSE /\ standardSitemap' = r.value
                       /\ pc' = "findSitemapInHtmlHeader"
                       /\ UNCHANGED stack
    /\ UNCHANGED <<inputVars, hasSitemapInRobotsTxt, robotsSitemaps,
                   htmlSitemap, commonSitemaps, pathIndex, sitemapPaths,
                   sitemapIndex, allLinks, result, returns>>

\* getAllSitemapPaths returns `paths`: the route answers with them, or
\* extractAllLinks goes on to its first sitemap or to the homepage
LocatorReturns(paths) ==
    /\ sitemapPaths' = paths
    /\ IF op = "getAllSitemapPaths"
       THEN /\ result' = paths
            /\ pc' = "done"
            /\ UNCHANGED <<stack, sitemapIndex>>
       ELSE IF SitemapsWereFound(paths)
       THEN IF paths # <<>>
            THEN /\ stack' = <<Frame(paths[1].url)>>
                 /\ sitemapIndex' = 1
                 /\ pc' = "extractLinksFromSitemap"
                 /\ UNCHANGED result
            ELSE /\ result' = DeduplicateLinks(allLinks)
                 /\ pc' = "done"
                 /\ UNCHANGED <<stack, sitemapIndex>>
       ELSE /\ pc' = "extractLinksFromPage"
            /\ UNCHANGED <<stack, sitemapIndex, result>>

HtmlHeaderStep ==
    /\ pc = "findSitemapInHtmlHeader"
    /\ \E response \in GetResponses(Pages) :
           LET r == FindSitemapInHtmlHeader(arg, response)
           IN  /\ Issue("findSitemapInHtmlHeader", "GET", arg, 0, response)
               /\ IF r.raised
                  THEN /\ Fail
                       /\ UNCHANGED <<htmlSitemap, pathIndex, sitemapPaths,
                                      sitemapIndex, result>>
                  ELSE /\ htmlSitemap' = r.value
                       /\ IF ShouldCheckCommonPaths(hasSitemapInRobotsTxt,
                                                    robotsSitemaps)
                          THEN /\ pc' = "checkCommonSitemapPaths"
                               /\ pathIndex' = 1
                               /\ UNCHANGED <<stack, sitemapPaths, sitemapIndex,
                                              result>>
                          ELSE /\ LocatorReturns(
                                      CombineSitemapPaths(robotsSitemaps,
                                                          standardSitemap,
                                                          r.value,
                                                          commonSitemaps))
                               /\ UNCHANGED pathIndex
    /\ UNCHANGED <<inputVars, hasSitemapInRobotsTxt, robotsSitemaps,
                   standardSitemap, commonSitemaps, allLinks, returns>>

\* one HEAD of the loop of checkCommonSitemapPaths
CommonPathStep ==
    /\ pc = "checkCommonSitemapPaths"
    /\ LET path == commonPaths[pathIndex]
           sitemapUrl == Resolve(arg, path)
       IN  \E response \in (IF path \in Hosted THEN HeadResponses
                            ELSE {NetworkError}) :
               LET r == CommonPathProbe(commonSitemaps, sitemapUrl, response)
               IN  /\ Issue("checkCommonSitemapPaths", "HEAD", sitemapUrl, 0,
                            response)
                   /\ IF r.raised
                      THEN /\ Fail
                           /\ UNCHANGED <<commonSitemaps, pathIndex,
                                          sitemapPaths, sitemapIndex, result>>
                      ELSE /\ commonSitemaps' = r.value
                           /\ IF pathIndex < Len(commonPaths)
                              THEN /\ pathIndex' = pathIndex + 1
                                   /\ UNCHANGED <<pc, stack, sitemapPaths,
                                                  sitemapIndex, result>>
                              ELSE /\ LocatorReturns(
                                          CombineSitemapPaths(robotsSitemaps,
                                                              standardSitemap,
                                                              htmlSitemap,
                                                              r.value))
                                   /\ UNCHANGED pathIndex
    /\ UNCHANGED <<inputVars, hasSitemapInRobotsTxt, robotsSitemaps,
                   standardSitemap, htmlSitemap, allLinks, returns>>

SitemapResponses(sitemapUrl) ==
    {NetworkError}
        \cup (IF sitemapUrl \in DOMAIN web THEN {Response(web[sitemapUrl])} ELSE {})

FetchCount ==
    Cardinality({ i \in DOMAIN requests : requests[i].fn = "extractLinksFromSitemap" })

\* the outermost extractLinksFromSitemap call has ended
ExtractorReturns(outcome) ==
    IF outcome.kind = "raise"
    THEN /\ Fail
         /\ UNCHANGED <<sitemapIndex, allLinks, result>>
    ELSE IF op = "extractLinksFromSitemap"
    THEN /\ result' = outcome.value
         /\ pc' = "done"
         /\ stack' = <<>>
         /\ UNCHANGED <<sitemapIndex, allLinks>>
    ELSE LET links == allLinks \o outcome.value
         IN  /\ allLinks' = links
             /\ IF sitemapIndex < Len(sitemapPaths)
                THEN /\ sitemapIndex' = sitemapIndex + 1
                     /\ stack' = <<Frame(sitemapPaths[sitemapIndex + 1].url)>>
                     /\ UNCHANGED <<pc, result>>
                ELSE /\ result' = DeduplicateLinks(links)
                     /\ pc' = "done"
                     /\ stack' = <<>>
                     /\ UNCHANGED sitemapIndex

\* the GET of the innermost extractLinksFromSitemap call is answered
SitemapStep ==
    /\ pc = "extractLinksFromSitemap"
    /\ FetchCount < MaxFetches
    /\ \E response \in SitemapResponses(Head(stack).sitemapUrl) :
           LET frame == [Head(stack) EXCEPT !.response = response]
               outcome == OnSitemapResponse(frame.sitemapUrl, response)
           IN  /\ Issue("extractLinksFromSitemap", "GET", frame.sitemapUrl,
                        Len(stack), response)
               /\ IF outcome.kind = "recurse"
                  THEN /\ stack' =
                              <<Frame(outcome.nestedSitemapUrls[1]),
                                [frame EXCEPT
                                    !.nestedSitemapUrls = outcome.nestedSitemapUrls,
                                    !.i = 1]>>
                                  \o Tail(stack)
                       /\ UNCHANGED <<pc, sitemapIndex, allLinks, result, returns>>
                  ELSE LET u == Unwind(Tail(stack), frame, outcome, returns)
                       IN  /\ returns' = u.returns
                           /\ IF u.stack # <<>>
                              THEN /\ stack' = u.stack
                                   /\ UNCHANGED <<pc, sitemapIndex, allLinks,
                                                  result>>
                              ELSE ExtractorReturns(u.outcome)
    /\ UNCHANGED <<inputVars, locatorVars, sitemapPaths>>

\* the fallback of extractAllLinks: the homepage, then the aggregation
PageStep ==
    /\ pc = "extractLinksFromPage"
    /\ \E response \in GetResponses(Pages) :
           LET homepageLinks == ExtractLinksFromPage(arg, response)
           IN  /\ Issue("extractLinksFromPage", "GET", arg, 0, response)
               /\ allLinks' = allLinks \o homepageLinks
               /\ result' = DeduplicateLinks(allLinks \o homepageLinks)
               /\ pc' = "done"
    /\ UNCHANGED <<inputVars, locatorVars, sitemapPaths, sitemapIndex, stack,
                   returns>>

Next ==
    \/ CheckRobotsTxtStep
    \/ ExtractRobotsTxtStep
    \/ StandardPathStep
    \/ HtmlHeaderStep
    \/ CommonPathStep
    \/ SitemapStep
    \/ PageStep

Spec == Init /\ [][Next]_vars


-----------------------------------------------------------------------------
(* extractLinksFromSitemap on its own, every GET eventually answered *)

InitExtractor == Init /\ op = "extractLinksFromSitemap"

NextExtractor == SitemapStep

SpecExtractor ==
    InitExtractor /\ [][NextExtractor]_vars /\ WF_vars(SitemapStep)

-----------------------------------------------------------------------------
(* extractLinksFromPage on its own, on any page of up to MaxAnchors anchors *)

MaxAnchors == 3

AnchorSamples ==
    { [href |-> "/about", text |-> "About"],
      [href |-> "contact", text |-> " Contact "],
      [href |-> "#top", text |-> "Top"],
      [href |-> "javascript:void(0)", text |-> "Run"],
      [href |-> "mailto:me@a.com", text |-> " "],
      [href |-> "https://b.org/x", text |-> "B"],
      [href |-> "", text |-> "Empty"],
      [text |-> "No target"] }

ScrapedPageUrls == {"https://a.com", "https://a.com/x", "https://a.com/dir/page"}

ScrapedPages ==
    { [links |-> <<>>, anchors |-> anchors] :
        anchors \in UNION { [1..n -> AnchorSamples] : n \in 0..MaxAnchors } }

InitScraper ==
    /\ op = "extractLinksFromPage"
    /\ arg \in ScrapedPageUrls
    /\ \E page \in ScrapedPages : web = (arg :> page)
    /\ pc = "extractLinksFromPage"
    /\ stack = <<>>
    /\ Idle

Scrape ==
    /\ op = "extractLinksFromPage"
    /\ pc = "extractLinksFromPage"
    /\ \E response \in {NetworkError, Response(web[arg])} :
           /\ Issue("extractLinksFromPage", "GET", arg, 0, response)
           /\ result' = ExtractLinksFromPage(arg, response)
           /\ pc' = "done"
    /\ UNCHANGED <<inputVars, locatorVars, sitemapPaths, sitemapIndex,
                   allLinks, stack, returns>>

NextScraper == Scrape

SpecScraper == InitScraper /\ [][NextScraper]_vars

-----------------------------------------------------------------------------
(* The aggregation step on its own: extractAllLinks after its loops, with   *)
(* any list of links in allLinks                                            *)

LinkSamples ==
    { [url |-> "https://a.com/1", source |-> SitemapXml],
      [url |-> "https://a.com/1", source |-> PostXml, lastmod |-> "2024-01-01"],
      [url |-> "https://a.com/2", source |-> PostXml],
      [url |-> "https://a.com/2", source |-> PageXml, priority |-> "0.5"],
      [url |-> "https://A.com/2", source |-> PageXml] }

LinkLists == UNION { [1..n -> LinkSamples] : n \in 0..MaxLinks }

InitAggregate ==
    /\ op = "extractAllLinks"
    /\ arg \in WebsiteUrls
    /\ web = TreeSite
    /\ pc = "aggregate"
    /\ stack = <<>>
    /\ hasSitemapInRobotsTxt = FALSE
    /\ robotsSitemaps = <<>>
    /\ standardSitemap = Null
    /\ htmlSitemap = Null
    /\ commonSitemaps = <<>>
    /\ pathIndex = 0
    /\ sitemapPaths = <<>>
    /\ sitemapIndex = 0
    /\ allLinks \in LinkLists
    /\ result = <<>>
    /\ requests = <<>>
    /\ returns = <<>>

Aggregate ==
    /\ pc = "aggregate"
    /\ result' = DeduplicateLinks(allLinks)
    /\ pc' = "done"
    /\ UNCHANGED <<inputVars, locatorVars, sitemapPaths, sitemapIndex,
                   allLinks, stack, requests, returns>>

NextAggregate == Aggregate

SpecAggregate == InitAggregate /\ [][NextAggregate]_vars

-----------------------------------------------------------------------------
(* Vocabulary of the properties *)

Finished(operation) == op = operation /\ pc = "done"

Urls(links) == [i \in DOMAIN links |-> links[i].url]

NoDuplicates(s) == \A i, j \in DOMAIN s : i # j => s[i] # s[j]

\* the positions of s that hold the first occurrence of their key
FirstPositions(keys) ==
    { i \in DOMAIN keys : \A j \in 1..(i - 1) : keys[j] # keys[i] }

\* the k-th smallest member of a set of positions
Nth(positions, k) ==
    CHOOSE i \in positions : Cardinality({ j \in positions : j <= i }) = k

\* s restricted to a set of its positions, order kept
Restrict(s, positions) ==
    [k \in 1..Cardinality(positions) |-> s[Nth(positions, k)]]

FirstOccurrences(links) == Restrict(links, FirstPositions(Urls(links)))

RequestsOf(fn) == SelectSeq(requests, LAMBDA r : r.fn = fn)

-----------------------------------------------------------------------------
(* C1: whatever the fetches answered, the list extractAllLinks returns     *)
(* holds no two entries with the same url (exact string equality).         *)

NoTwoEntriesShareUrl ==
    Finished("extractAllLinks") => NoDuplicates(Urls(result))

\* a run in which the collected links did repeat a url
DuplicateUrlWasCollected ==
    /\ Finished("extractAllLinks")
    /\ requests # <<>>
    /\ ~NoDuplicates(Urls(allLinks))
    /\ Len(result) >= 3

(* C2: the aggregation step keeps, in input order, exactly the entries     *)
(* that are the first occurrence of their url, each as that first          *)
(* occurrence carried it (text, metadata, source).                         *)

AggregationKeepsFirstOccurrences ==
    Finished("extractAllLinks") => result = FirstOccurrences(allLinks)

\* a later duplicate with richer metadata was discarded
RicherDuplicateDiscarded ==
    /\ Finished("extractAllLinks")
    /\ Len(allLinks) = 3
    /\ allLinks[1].url = allLinks[3].url
    /\ allLinks[2].url # allLinks[1].url
    /\ "lastmod" \notin DOMAIN allLinks[1]
    /\ "lastmod" \in DOMAIN allLinks[3]
    /\ result = <<allLinks[1], allLinks[2]>>


(* C3 as stated: when the locator returns no sitemap reference, the        *)
(* extractor is never called and the result of extractAllLinks is exactly  *)
(* what extractLinksFromPage returned for the website URL.                 *)

FallbackResultIsScraperOutput ==
    (Finished("extractAllLinks") /\ sitemapPaths = <<>>) =>
        /\ RequestsOf("extractLinksFromSitemap") = <<>>
        /\ Len(RequestsOf("extractLinksFromPage")) = 1
        /\ RequestsOf("extractLinksFromPage")[1].url = arg
        /\ result = ExtractLinksFromPage(
                        arg, RequestsOf("extractLinksFromPage")[1].response)

(* C3 amended: when the locator returns no sitemap reference, the extractor *)
(* is never called, the scraper is called once, on the website URL, and    *)
(* the result is what it returned with later entries of an already seen    *)
(* url removed.                                                            *)

FallbackResultIsDeduplicatedScraperOutput ==
    (Finished("extractAllLinks") /\ sitemapPaths = <<>>) =>
        /\ RequestsOf("extractLinksFromSitemap") = <<>>
        /\ returns = <<>>
        /\ Len(RequestsOf("extractLinksFromPage")) = 1
        /\ RequestsOf("extractLinksFromPage")[1].url = arg
        /\ result = FirstOccurrences(
                        ExtractLinksFromPage(
                            arg, RequestsOf("extractLinksFromPage")[1].response))

\* the fallback ran on a page that links the same url twice
FallbackDroppedRepeatedAnchor ==
    /\ Finished("extractAllLinks")
    /\ sitemapPaths = <<>>
    /\ result # <<>>
    /\ Len(result) < Len(allLinks)

(* C4: when the locator returns at least one reference, extractAllLinks    *)
(* calls the extractor on each reference once, in the order returned,      *)
(* concatenates what the calls return in that order, and never calls the   *)
(* page scraper, even when every extraction is empty.                      *)

TopLevel(log) == SelectSeq(log, LAMBDA r : r.depth = 1)

SitemapsAreExtractedInOrder ==
    /\ (op = "extractAllLinks" /\ sitemapPaths # <<>>) =>
           RequestsOf("extractLinksFromPage") = <<>>
    /\ (Finished("extractAllLinks") /\ sitemapPaths # <<>>) =>
           LET calls == TopLevel(RequestsOf("extractLinksFromSitemap"))
               ends == TopLevel(returns)
           IN  /\ Urls(calls) = Urls(sitemapPaths)
               /\ [i \in DOMAIN ends |-> ends[i].sitemapUrl] = Urls(sitemapPaths)
               /\ \A i \in DOMAIN ends : ends[i].outcome.kind = "return"
               /\ allLinks = Flatten([i \in DOMAIN ends |-> ends[i].outcome.value])

\* several sitemaps were located and every extraction came back empty
EveryExtractionEmpty ==
    /\ Finished("extractAllLinks")
    /\ Len(sitemapPaths) >= 2
    /\ allLinks = <<>>

(* C5: a common path is probed only when the directive signal of the       *)
(* robots.txt check was false or the robots.txt extraction found nothing;  *)
(* when both robots.txt fetches return the body whose only directive is    *)
(* "Sitemap: https://a.com/custom.xml", no common path is probed and the   *)
(* located set is that URL plus the standard-path and HTML-header hits     *)
(* (those ending in .xml).                                                 *)

LocatorOperations == {"getAllSitemapPaths", "extractAllLinks"}

LocatorReturned ==
    /\ op \in LocatorOperations
    /\ pc \in {"extractLinksFromSitemap", "extractLinksFromPage", "done"}

Answered(fn, data) ==
    \E i \in DOMAIN requests :
        /\ requests[i].fn = fn
        /\ requests[i].response.ok
        /\ requests[i].response.data = data

Succeeded(fn) ==
    \E i \in DOMAIN requests : requests[i].fn = fn /\ requests[i].response.ok

DirectiveSignal ==
    \E data \in RobotsBodies :
        /\ Answered("checkRobotsTxtForSitemapPath", data)
        /\ Includes(ToLowerCase(data), "sitemap: ")

EndsInXml(u) == EndsWith(ToLowerCase(u), ".xml")

\* what the page's link element points to, from https://a.com
LinkedFrom(page) ==
    IF page = PageLinked THEN {"https://a.com/sitemap-main.xml"}
    ELSE IF page = PageFeed THEN {"https://a.com/feed"}
    ELSE {}

HeaderHits ==
    UNION { LinkedFrom(page) : page \in { q \in Pages : Answered("findSitemapInHtmlHeader", q) } }

StandardHits ==
    IF Succeeded("extractSitemapUrl") THEN {"https://a.com/sitemap.xml"} ELSE {}

CommonPathsProbedOnlyWithoutRobotsSitemaps ==
    /\ RequestsOf("checkCommonSitemapPaths") # <<>> =>
           (~DirectiveSignal \/ robotsSitemaps = <<>>)
    /\ ( /\ LocatorReturned
         /\ Answered("checkRobotsTxtForSitemapPath", RobotsCustom)
         /\ Answered("extractSitemapsFromRobotsTxt", RobotsCustom) ) =>
           /\ RequestsOf("checkCommonSitemapPaths") = <<>>
           /\ Range(Urls(sitemapPaths)) =
                  {"https://a.com/custom.xml"}
                      \cup { u \in StandardHits \cup HeaderHits : EndsInXml(u) }

\* robots.txt declared custom.xml, and the standard path and the header hit
CustomSitemapWithOtherHits ==
    /\ LocatorReturned
    /\ Answered("checkRobotsTxtForSitemapPath", RobotsCustom)
    /\ Answered("extractSitemapsFromRobotsTxt", RobotsCustom)
    /\ Len(sitemapPaths) = 3

(* C6: the locator returns the robots.txt entries, the standard-path hit,  *)
(* the HTML-header hit and the common-path hits, in that order, filtered   *)
(* to the URLs whose lowercased form ends in ".xml" and with only the      *)
(* first occurrence of each URL kept: no URL twice, none that does not end *)
(* in ".xml", never /sitemap/ nor /sitemaps/.                              *)

LocatedIsFilteredFirstOccurrences ==
    LocatorReturned =>
        LET candidates == Urls(robotsSitemaps) \o Urls(Present(standardSitemap))
                              \o Urls(Present(htmlSitemap)) \o Urls(commonSitemaps)
            xml == SelectSeq(candidates, EndsInXml)
            urls == Urls(sitemapPaths)
        IN  /\ urls = Restrict(xml, FirstPositions(xml))
            /\ NoDuplicates(urls)
            /\ \A i \in DOMAIN urls : EndsInXml(urls[i])
            /\ "https://a.com/sitemap/" \notin Range(urls)
            /\ "https://a.com/sitemaps/" \notin Range(urls)

\* an upper-case .XML was kept, /sitemap/ was found and dropped, and
\* /sitemap.xml was found three times
FilterAndDeduplicationActed ==
    /\ LocatorReturned
    /\ "https://a.com/NEWS.XML" \in Range(Urls(sitemapPaths))
    /\ "https://a.com/sitemap/" \in Range(Urls(commonSitemaps))
    /\ "https://a.com/sitemap.xml" \in Range(Urls(commonSitemaps))
    /\ "https://a.com/sitemap.xml" \in Range(Urls(robotsSitemaps))
    /\ standardSitemap # Null

(* C7: the locator never raises; whatever each fetch answered, the four    *)
(* fixed strategies all ran, a common-path pass once begun probed all      *)
(* twelve paths, and the located URLs are exactly the .xml hits of the     *)
(* fetches that succeeded: a failed fetch removes only its own hits.       *)

\* the URLs a robots.txt body declares
DeclaredIn(data) ==
    IF data = RobotsCustom THEN {"https://a.com/custom.xml"}
    ELSE IF data = RobotsTwo THEN {"https://a.com/sitemap.xml", "https://a.com/NEWS.XML"}
    ELSE IF data = RobotsFeed THEN {"https://a.com/feed"}
    ELSE {}

RobotsHits ==
    UNION { DeclaredIn(data) :
              data \in { d \in RobotsBodies : Answered("extractSitemapsFromRobotsTxt", d) } }

CommonHits ==
    { requests[i].url : i \in { j \in DOMAIN requests :
                                  /\ requests[j].fn = "checkCommonSitemapPaths"
                                  /\ requests[j].response.ok } }

LocatorSurvivesFailedFetches ==
    /\ op \in LocatorOperations => pc # "raised"
    /\ LocatorReturned =>
           /\ Len(requests) >= 4
           /\ [i \in 1..4 |-> requests[i].fn] =
                  << "checkRobotsTxtForSitemapPath", "extractSitemapsFromRobotsTxt",
                     "extractSitemapUrl", "findSitemapInHtmlHeader" >>
           /\ RequestsOf("checkCommonSitemapPaths") # <<>> =>
                  Urls(RequestsOf("checkCommonSitemapPaths")) =
                      [i \in 1..12 |-> "https://a.com" \o commonPaths[i]]
           /\ Range(Urls(sitemapPaths)) =
                  { u \in RobotsHits \cup StandardHits \cup HeaderHits \cup CommonHits :
                      EndsInXml(u) }

\* both robots.txt fetches, the header fetch and the first common probe
\* failed; the standard path and /wp-sitemap.xml still came through
OtherStrategiesStillContribute ==
    /\ LocatorReturned
    /\ ~Succeeded("checkRobotsTxtForSitemapPath")
    /\ ~Succeeded("extractSitemapsFromRobotsTxt")
    /\ ~Succeeded("findSitemapInHtmlHeader")
    /\ Urls(sitemapPaths) = <<"https://a.com/sitemap.xml", "https://a.com/wp-sitemap.xml">>
    /\ CommonHits = {"https://a.com/wp-sitemap.xml"}


-----------------------------------------------------------------------------
(* Vocabulary of the extractor's properties: `returns` lists the ended    *)
(* calls in the order they ended, so the calls a call made are the ones    *)
(* one level deeper that ended since the last call at its level or above.  *)

Value(k) == returns[k].outcome.value

BranchPositions(k) ==
    LET before == { p \in 1..(k - 1) : returns[p].depth <= returns[k].depth }
        start == IF before = {} THEN 0
                 ELSE CHOOSE p \in before : \A q \in before : q <= p
    IN  { j \in (start + 1)..(k - 1) : returns[j].depth = returns[k].depth + 1 }

BranchUrls(k) ==
    LET at == BranchPositions(k)
    IN  [n \in 1..Cardinality(at) |-> returns[Nth(at, n)].sitemapUrl]

BranchValues(k) ==
    LET at == BranchPositions(k)
    IN  [n \in 1..Cardinality(at) |-> Value(Nth(at, n))]

HasLoc(element) == "loc" \in DOMAIN element

Parsed(body) == "parseError" \notin DOMAIN body.xml

IsIndexDocument(body) ==
    /\ Parsed(body)
    /\ "sitemapindex" \in DOMAIN body.xml

IsUrlSetDocument(body) ==
    /\ Parsed(body)
    /\ "urlset" \in DOMAIN body.xml

AllHaveLoc(elements) == \A i \in DOMAIN elements : HasLoc(elements[i])

FetchFailed(k) == ~returns[k].response.ok

ParseFailed(k) == returns[k].response.ok /\ ~Parsed(returns[k].response.data)

\* the entry of one url element that has a loc
EntryOf(urlObj, sitemapUrl) ==
    [url |-> urlObj.loc[1], source |-> sitemapUrl]
        @@ (IF "lastmod" \in DOMAIN urlObj
            THEN [lastmod |-> urlObj.lastmod[1]] ELSE <<>>)
        @@ (IF "priority" \in DOMAIN urlObj
            THEN [priority |-> urlObj.priority[1]] ELSE <<>>)
        @@ (IF "changefreq" \in DOMAIN urlObj
            THEN [changefreq |-> urlObj.changefreq[1]] ELSE <<>>)

\* what the text scan finds in the bodies that do not parse
TextScan(body, sitemapUrl) ==
    IF body = MalformedBody
    THEN << [url |-> "https://a.com/2", source |-> sitemapUrl],
            [url |-> "https://a.com/9", source |-> sitemapUrl] >>
    ELSE <<>>

ExtractorNeverRaises ==
    /\ pc # "raised"
    /\ \A k \in DOMAIN returns : returns[k].outcome.kind = "return"
    /\ Finished("extractLinksFromSitemap") =>
           /\ returns # <<>>
           /\ returns[Len(returns)].sitemapUrl = arg
           /\ returns[Len(returns)].depth = 1
           /\ result = Value(Len(returns))

FailedFetchYieldsNothing ==
    \A k \in DOMAIN returns : FetchFailed(k) => Value(k) = <<>>

\* an index whose elements all have a loc returns what its nested sitemaps
\* returned, in index order
IndexConcatenatesItsBranches ==
    \A k \in DOMAIN returns :
        ( /\ returns[k].response.ok
          /\ IsIndexDocument(returns[k].response.data)
          /\ AllHaveLoc(returns[k].response.data.xml.sitemapindex.sitemap) ) =>
            /\ BranchUrls(k) =
                   [i \in DOMAIN returns[k].response.data.xml.sitemapindex.sitemap |->
                       returns[k].response.data.xml.sitemapindex.sitemap[i].loc[1]]
            /\ Value(k) = Flatten(BranchValues(k))

(* C8 as stated: the extractor never raises; a failed fetch yields the     *)
(* empty sequence; within an index a nested sitemap whose fetch or parse   *)
(* failed contributes the empty sequence and its siblings' entries stay,   *)
(* in index order.                                                         *)

FailedBranchContributesNothing ==
    /\ ExtractorNeverRaises
    /\ FailedFetchYieldsNothing
    /\ IndexConcatenatesItsBranches
    /\ \A k \in DOMAIN returns :
           (returns[k].depth > 1 /\ ParseFailed(k)) => Value(k) = <<>>

(* C8 amended: the extractor never raises; a failed fetch yields the empty *)
(* sequence; within an index a nested sitemap whose fetch failed           *)
(* contributes the empty sequence, one whose parse failed contributes what *)
(* the text scan finds in its body (nothing when the body is not text),    *)
(* and the siblings' entries stay, in index order.                         *)

FailedBranchContributesOnlyTextScan ==
    /\ ExtractorNeverRaises
    /\ FailedFetchYieldsNothing
    /\ IndexConcatenatesItsBranches
    /\ \A k \in DOMAIN returns :
           ParseFailed(k) =>
               Value(k) = TextScan(returns[k].response.data, returns[k].sitemapUrl)

\* in one index a nested fetch failed, a nested body did not parse and gave
\* text-scan entries, and a later sibling gave its entries
SiblingsOfFailedBranchesKept ==
    /\ Finished("extractLinksFromSitemap")
    /\ \E i, j, k \in DOMAIN returns :
           /\ i < j /\ j < k
           /\ returns[i].depth = 2 /\ returns[j].depth = 2 /\ returns[k].depth = 2
           /\ FetchFailed(i)
           /\ ParseFailed(j) /\ Value(j) # <<>>
           /\ returns[k].response.ok /\ Value(k) # <<>>
           /\ Len(result) = Len(Value(j)) + Len(Value(k))

-----------------------------------------------------------------------------
(* Vocabulary of the recursion's properties *)

NestedLocs(site, u) ==
    [i \in DOMAIN site[u].xml.sitemapindex.sitemap |->
        site[u].xml.sitemapindex.sitemap[i].loc[1]]

IsLeaf(site, u) ==
    /\ u \in DOMAIN site
    /\ IsUrlSetDocument(site[u])
    /\ AllHaveLoc(site[u].xml.urlset.url)

IsIndex(site, u) ==
    /\ u \in DOMAIN site
    /\ IsIndexDocument(site[u])
    /\ AllHaveLoc(site[u].xml.sitemapindex.sitemap)

\* every reference path from u ends at a leaf url-set within `hops` documents
RECURSIVE ReachesLeaves(_, _, _)
ReachesLeaves(site, u, hops) ==
    /\ hops > 0
    /\ \/ IsLeaf(site, u)
       \/ /\ IsIndex(site, u)
          /\ \A i \in DOMAIN NestedLocs(site, u) :
                 ReachesLeaves(site, NestedLocs(site, u)[i], hops - 1)

\* u is an index over leaf url-sets, without cycles: no path is longer than
\* the number of documents
AcyclicIndex(site, u) ==
    /\ IsIndex(site, u)
    /\ ReachesLeaves(site, u, Cardinality(DOMAIN site))

\* the leaves under u, once per reference, in reference order
RECURSIVE LeafReferences(_, _)
LeafReferences(site, u) ==
    IF IsLeaf(site, u) THEN <<u>>
    ELSE Flatten([i \in DOMAIN NestedLocs(site, u) |->
                     LeafReferences(site, NestedLocs(site, u)[i])])

LeafEntries(site, u) ==
    [i \in DOMAIN site[u].xml.urlset.url |-> EntryOf(site[u].xml.urlset.url[i], u)]

Occurrences(s, x) == Cardinality({ i \in DOMAIN s : s[i] = x })

AllFetchesSucceeded == \A i \in DOMAIN requests : requests[i].response.ok

ExtractingAcyclicIndex ==
    /\ op = "extractLinksFromSitemap"
    /\ AcyclicIndex(web, arg)

ReturnsLeafEntriesInOrder ==
    result = Flatten([i \in DOMAIN LeafReferences(web, arg) |->
                         LeafEntries(web, LeafReferences(web, arg)[i])])

(* C9 as stated: on an index that reaches leaf url-sets without cycles,    *)
(* all fetches succeeding, the extractor returns the leaves' entries       *)
(* concatenated in reference order and has fetched each leaf exactly once. *)

EachLeafFetchedExactlyOnce ==
    (ExtractingAcyclicIndex /\ AllFetchesSucceeded /\ pc = "done") =>
        /\ ReturnsLeafEntriesInOrder
        /\ \A i \in DOMAIN LeafReferences(web, arg) :
               Occurrences(Urls(requests), LeafReferences(web, arg)[i]) = 1

(* C9 amended: on an index that reaches leaf url-sets without cycles, the  *)
(* extractor terminates; when all fetches succeeded it returns the leaves' *)
(* entries concatenated in reference order, a leaf referenced several      *)
(* times contributing each time, and has fetched each leaf once per        *)
(* reference to it.                                                        *)

EachLeafFetchedOncePerReference ==
    (ExtractingAcyclicIndex /\ AllFetchesSucceeded /\ pc = "done") =>
        /\ ReturnsLeafEntriesInOrder
        /\ \A i \in DOMAIN LeafReferences(web, arg) :
               Occurrences(Urls(requests), LeafReferences(web, arg)[i]) =
                   Occurrences(LeafReferences(web, arg), LeafReferences(web, arg)[i])

IndexRecursionTerminatesWithLeafEntries ==
    /\ []EachLeafFetchedOncePerReference
    /\ ExtractingAcyclicIndex ~> (pc = "done")

\* a leaf referenced twice: directly and through a nested index
SharedLeafExtractedTwice ==
    /\ ExtractingAcyclicIndex
    /\ AllFetchesSucceeded
    /\ pc = "done"
    /\ Occurrences(LeafReferences(web, arg), "https://a.com/post.xml") = 2
    /\ Len(result) = 6

(* C10: in the structured parse, a url or sitemap element without a loc is *)
(* skipped: a url-set returns one entry, with its metadata, for each       *)
(* element that has a loc, in order, and an index recurses into each       *)
(* nested sitemap that has a loc and returns what those calls returned.    *)

ElementsWithLoc(elements) == SelectSeq(elements, HasLoc)

LocLessEntriesAreSkipped ==
    \A k \in DOMAIN returns :
        returns[k].response.ok =>
            LET body == returns[k].response.data
            IN  /\ IsUrlSetDocument(body) =>
                       Value(k) =
                           [i \in DOMAIN ElementsWithLoc(body.xml.urlset.url) |->
                               EntryOf(ElementsWithLoc(body.xml.urlset.url)[i],
                                       returns[k].sitemapUrl)]
                /\ IsIndexDocument(body) =>
                       /\ BranchUrls(k) =
                              [i \in DOMAIN ElementsWithLoc(body.xml.sitemapindex.sitemap) |->
                                  ElementsWithLoc(body.xml.sitemapindex.sitemap)[i].loc[1]]
                       /\ Value(k) = Flatten(BranchValues(k))


(* C11: a url-set whose url elements all have a loc gives one entry per    *)
(* element, in document order, with url = the element's loc, source = the  *)
(* URL of the url-set itself (also when an index led to it), and lastmod,  *)
(* priority and changefreq exactly when the element has them; an enclosing *)
(* index passes the entries on unchanged.                                  *)

Metadata == {"lastmod", "priority", "changefreq"}

EntryMatchesElement(entry, urlObj, sitemapUrl) ==
    /\ entry.url = urlObj.loc[1]
    /\ entry.source = sitemapUrl
    /\ DOMAIN entry = {"url", "source"} \cup (Metadata \cap DOMAIN urlObj)
    /\ \A field \in Metadata \cap DOMAIN urlObj : entry[field] = urlObj[field][1]

IsWellFormedUrlSet(k) ==
    /\ returns[k].response.ok
    /\ IsUrlSetDocument(returns[k].response.data)
    /\ AllHaveLoc(returns[k].response.data.xml.urlset.url)

UrlSetEntriesMirrorElements ==
    /\ \A k \in DOMAIN returns :
           IsWellFormedUrlSet(k) =>
               /\ DOMAIN Value(k) = DOMAIN returns[k].response.data.xml.urlset.url
               /\ \A i \in DOMAIN Value(k) :
                      EntryMatchesElement(Value(k)[i],
                                          returns[k].response.data.xml.urlset.url[i],
                                          returns[k].sitemapUrl)
    /\ IndexConcatenatesItsBranches

\* an index led to a url-set with and without metadata, and its entries
\* are returned with the url-set as their source
LeafEntriesReturnedThroughIndex ==
    /\ Finished("extractLinksFromSitemap")
    /\ \E k \in DOMAIN returns :
           /\ returns[k].depth = 2
           /\ IsWellFormedUrlSet(k)
           /\ Len(Value(k)) = 2
           /\ "lastmod" \in DOMAIN Value(k)[1]
           /\ DOMAIN Value(k)[2] = {"url", "source"}
           /\ \E i \in DOMAIN result :
                  /\ result[i] = Value(k)[1]
                  /\ result[i].source = returns[k].sitemapUrl
                  /\ result[i].source # arg


(* C12: the page scraper returns, for the anchors in document order, no    *)
(* entry for an anchor without href, with an empty href, or whose href     *)
(* begins with "#" or "javascript:", and one entry for every other anchor, *)
(* with url = the href resolved against the page URL and source = the page *)
(* URL, off-site and mailto: hrefs included; when the fetch of the page    *)
(* fails it returns the empty sequence and raises nothing.                 *)

\* what node's url.resolve gives for the sampled hrefs
ResolvedAgainst(pageUrl, href) ==
    IF href \in {"mailto:me@a.com", "https://b.org/x"} THEN href
    ELSE IF href = "/about" THEN "https://a.com/about"
    ELSE IF href = "contact"
    THEN (IF pageUrl = "https://a.com/dir/page" THEN "https://a.com/dir/contact"
          ELSE "https://a.com/contact")
    ELSE "?"

Contributes(anchor) ==
    /\ "href" \in DOMAIN anchor
    /\ anchor.href # ""
    /\ SubSeq(anchor.href, 1, 1) # "#"
    /\ ~(Len(anchor.href) >= 11 /\ SubSeq(anchor.href, 1, 11) = "javascript:")

ScraperFiltersAnchors ==
    /\ op = "extractLinksFromPage" => pc # "raised"
    /\ Finished("extractLinksFromPage") =>
           /\ Len(requests) = 1
           /\ requests[1].url = arg
           /\ IF requests[1].response.ok
              THEN LET kept == SelectSeq(web[arg].anchors, Contributes)
                   IN  /\ Len(result) = Len(kept)
                       /\ \A i \in DOMAIN result :
                              /\ result[i].url = ResolvedAgainst(arg, kept[i].href)
                              /\ result[i].source = arg
              ELSE result = <<>>

\* an anchor without href dropped, a relative and a mailto: href kept
AnchorsFilteredAndResolved ==
    /\ Finished("extractLinksFromPage")
    /\ requests[1].response.ok
    /\ Len(web[arg].anchors) = 3
    /\ \E i \in 1..3 : "href" \notin DOMAIN web[arg].anchors[i]
    /\ Len(result) = 2
    /\ result[1].url = "https://a.com/dir/contact"
    /\ result[2].url = "mailto:me@a.com"


(* C13: when both robots.txt fetches answer a body that declares Sitemap   *)
(* directives none of which ends in ".xml", the standard path is not found *)
(* and the HTML header gives no ".xml" URL, the locator probes no common   *)
(* path and returns no reference, and extractAllLinks calls the page       *)
(* scraper on the website URL and never the extractor.                     *)

DeclaresNoXmlSitemap(data) ==
    /\ DeclaredIn(data) # {}
    /\ \A u \in DeclaredIn(data) : ~EndsInXml(u)

OnlyNonXmlDirectiveFound ==
    /\ LocatorReturned
    /\ \E data \in RobotsBodies :
           DeclaresNoXmlSitemap(data) /\ Answered("checkRobotsTxtForSitemapPath", data)
    /\ \E data \in RobotsBodies :
           DeclaresNoXmlSitemap(data) /\ Answered("extractSitemapsFromRobotsTxt", data)
    /\ StandardHits = {}
    /\ \A u \in HeaderHits : ~EndsInXml(u)

NonXmlDirectiveSuppressesCommonPaths ==
    OnlyNonXmlDirectiveFound =>
        /\ robotsSitemaps # <<>>
        /\ RequestsOf("checkCommonSitemapPaths") = <<>>
        /\ sitemapPaths = <<>>
        /\ op = "extractAllLinks" =>
               /\ RequestsOf("extractLinksFromSitemap") = <<>>
               /\ \/ pc = "extractLinksFromPage"
                  \/ /\ pc = "done"
                     /\ Urls(RequestsOf("extractLinksFromPage")) = <<arg>>

\* robots.txt and the header both pointed at /feed, and the homepage was
\* scraped
FeedDirectiveLedToScrape ==
    /\ OnlyNonXmlDirectiveFound
    /\ Finished("extractAllLinks")
    /\ HeaderHits = {"https://a.com/feed"}
    /\ result # <<>>


-----------------------------------------------------------------------------
(* Vocabulary of the termination properties: the reference graph has an    *)
(* edge from an index whose elements all have a loc to each URL it lists.  *)

References(site, u) ==
    IF IsIndex(site, u) THEN Range(NestedLocs(site, u)) ELSE {}

RECURSIVE HasReferencePath(_, _, _)
HasReferencePath(site, u, length) ==
    \/ length = 0
    \/ \E v \in References(site, u) : HasReferencePath(site, v, length - 1)

\* a reference path longer than the number of documents repeats a document
ReachesCycle(site, u) == HasReferencePath(site, u, Cardinality(DOMAIN site) + 1)

ExtractingCyclicIndex ==
    /\ op = "extractLinksFromSitemap"
    /\ ReachesCycle(web, arg)

ExtractingAcyclicInput ==
    /\ op = "extractLinksFromSitemap"
    /\ ~ReachesCycle(web, arg)

(* C14: on an index whose references form a cycle, while every fetch       *)
(* succeeds, extractLinksFromSitemap never completes: a call is always     *)
(* pending, its fetch can always be issued, each fetch of the index opens  *)
(* one more nested call, and nothing has returned to the caller; on every  *)
(* input whose reference graph has no cycle it completes.                  *)

CycleNeverCompletes ==
    (ExtractingCyclicIndex /\ AllFetchesSucceeded) =>
        /\ pc = "extractLinksFromSitemap"
        /\ stack # <<>>
        /\ result = <<>>
        /\ \A k \in DOMAIN returns : returns[k].depth > 1
        /\ Len(stack) >= Occurrences(Urls(requests), arg)
        /\ FetchCount < MaxFetches => ENABLED SitemapStep

CycleRunsForeverAcyclicInputCompletes ==
    /\ []CycleNeverCompletes
    /\ ExtractingAcyclicInput ~> (pc = "done")

\* the index that lists itself has been fetched again and again, up to the
\* bound of the exploration
CycleRefetchedUpToBound ==
    /\ ExtractingCyclicIndex
    /\ AllFetchesSucceeded
    /\ FetchCount = MaxFetches
    /\ Occurrences(Urls(requests), arg) * 2 >= MaxFetches
    /\ Len(stack) > Occurrences(Urls(requests), arg)

=============================================================================
